---- MODULE Spec2Model ----
(***************************************************************************)
(* A model of qiskit/terra/creating_a_provider.ipynb: the toy Hadamard     *)
(* simulator (run_hadamard_simulator), the degenerate job (HadamardJob),   *)
(* the wrapping backend (HadamardSimulator) and the provider               *)
(* (HadamardProvider).                                                     *)
(*                                                                         *)
(* Python lists are modelled as sequences: the Python entry l[i] is the    *)
(* element l[i + 1] here.  Python strings are sequences of one-character   *)
(* strings.  A Python dictionary is the sequence of its <<key, value>>      *)
(* items in insertion order.                                               *)
(***************************************************************************)
EXTENDS Integers, Sequences, FiniteSets

VARIABLES
    number_of_qubits,   \* argument of the last run_hadamard_simulator call
    list_of_qubits,     \* argument of the last run_hadamard_simulator call
    shots,              \* argument of the last run_hadamard_simulator call
    result,             \* its return value; <<>> before the first call
    qobj,               \* the qobj last handed to HadamardSimulator.run
    backend,            \* the HadamardSimulator object (self)
    jobs,               \* the HadamardJob objects run has returned
    history,            \* log of the runs that returned: qobj, job, result
    provider,           \* the HadamardProvider object
    call,               \* the last call made on backend, job or provider
    ret,                \* what that call returned
    raised              \* whether that call raised instead of returning

simvars == <<number_of_qubits, list_of_qubits, shots, result>>
objvars == <<qobj, backend, jobs, history, provider, call, ret, raised>>
vars == <<number_of_qubits, list_of_qubits, shots, result,
          qobj, backend, jobs, history, provider, call, ret, raised>>

----------------------------------------------------------------------------
(* Bounds of the model.                                                    *)

MaxQubits == 3
MaxLen == 3
MaxShots == 16
RunQubits == 5
MaxInstr == 2
MaxExperiments == 2
MaxJobs == 3

----------------------------------------------------------------------------
(* The notebook's own workload (cells 4 and 6).                            *)

TutorialQubits == 4
TutorialShots == 1024

----------------------------------------------------------------------------
(* Generic helpers for Python values.                                      *)

\* Python's None: a value apart from every string the model passes around.
None == "None"

RECURSIVE Pow2(_)
Pow2(e) == IF e = 0 THEN 1 ELSE 2 * Pow2(e - 1)

Reverse(s) == [j \in 1..Len(s) |-> s[Len(s) + 1 - j]]

SeqsUpTo(S, m) == UNION {[1..k -> S] : k \in 0..m}

RECURSIVE CountOnes(_)
CountOnes(l) == IF l = <<>> THEN 0
                ELSE (IF Head(l) = 1 THEN 1 ELSE 0) + CountOnes(Tail(l))

\* '{0:b}'.format(i): the binary digits of i, most significant first,
\* the single digit '0' for i = 0.
RECURSIVE FormatBinary(_)
FormatBinary(i) ==
    IF i < 2 THEN <<IF i = 1 THEN "1" ELSE "0">>
    ELSE Append(FormatBinary(i \div 2), IF i % 2 = 1 THEN "1" ELSE "0")

\* str.zfill(width): pad with '0' on the left up to width, never truncate.
RECURSIVE zfill(_, _)
zfill(s, width) == IF Len(s) >= width THEN s ELSE zfill(<<"0">> \o s, width)

EmptyDict == <<>>

DictKeys(d) == {d[j][1] : j \in 1..Len(d)}

\* d[k] for a key of d.
DictGet(d, k) == d[CHOOSE j \in 1..Len(d) : d[j][1] = k][2]

\* d[k] = v: the value of an existing key is replaced, a new key is added.
DictSet(d, k, v) ==
    IF k \in DictKeys(d)
    THEN [j \in 1..Len(d) |-> IF d[j][1] = k THEN <<k, v>> ELSE d[j]]
    ELSE Append(d, <<k, v>>)

HexDigit == <<"0", "1", "2", "3", "4", "5", "6", "7",
              "8", "9", "a", "b", "c", "d", "e", "f">>

RECURSIVE HexDigitsOf(_)
HexDigitsOf(i) ==
    IF i < 16 THEN <<HexDigit[i + 1]>>
    ELSE Append(HexDigitsOf(i \div 16), HexDigit[(i % 16) + 1])

\* hex(i) for i >= 0: '0x' and the lowercase hexadecimal digits of i.
hex(i) == <<"0", "x">> \o HexDigitsOf(i)

\* Truth value of a name argument: None and '' are false.
Truthy(name) == name # None /\ name # ""

----------------------------------------------------------------------------
(* run_hadamard_simulator                                                  *)

\* hadamard_list = [0]*number_of_qubits, then one toggle per listed qubit.
hadamard_set_always(hl, qubit) == [hl EXCEPT ![qubit + 1] = 1]

hadamard_toggle(hl, qubit) == [hl EXCEPT ![qubit + 1] = (1 + hl[qubit + 1]) % 2]

RECURSIVE hadamard_list_loop(_, _)
hadamard_list_loop(hl, l) ==
    IF l = <<>> THEN hl
    ELSE hadamard_list_loop(hadamard_toggle(hl, Head(l)), Tail(l))

hadamard_list_of(n, l) == hadamard_list_loop([j \in 1..n |-> 0], l)

\* basis_state = '{0:b}'.format(i).zfill(number_of_qubits)[::-1]
basis_state_unreversed(i, n) == zfill(FormatBinary(i), n)

basis_state_of(i, n) == Reverse(zfill(FormatBinary(i), n))

\* int(shots/(2**(1 + hadamard_list.count(1)))): true division, then
\* truncation; for shots >= 0 this is the floor of the quotient.
increment(hl, s) == s \div Pow2(1 + CountOnes(hl))

\* The inner loop "for qubit in range(number_of_qubits)" for one index i,
\* from qubit on, with acc the current value of result[i].
RECURSIVE qubit_loop(_, _, _, _, _)
qubit_loop(hl, bs, s, qubit, acc) ==
    IF qubit >= Len(hl) THEN acc
    ELSE IF hl[qubit + 1] = 0 /\ bs[qubit + 1] = "1" THEN 0
    ELSE IF hl[qubit + 1] = 1
         THEN qubit_loop(hl, bs, s, qubit + 1, acc + increment(hl, s))
         ELSE qubit_loop(hl, bs, s, qubit + 1, acc)

run_hadamard_simulator(n, l, s) ==
    LET hl == hadamard_list_of(n, l)
    IN  [j \in 1..Pow2(n) |-> qubit_loop(hl, basis_state_of(j - 1, n), s, 0, 0)]

----------------------------------------------------------------------------
(* HadamardJob                                                             *)

\* HadamardJob(backend): BaseJob.__init__(backend, 1).  The attribute
\* _result does not exist until run assigns it.
HadamardJob_init(b) == [_backend |-> b, _job_id |-> 1]

job_result(self) == [self |-> self, ret |-> self._result]

job_cancel_clearing(self) ==
    [self |-> [self EXCEPT !._result = [@ EXCEPT !.results = <<>>]], ret |-> None]

job_cancel(self) == [self |-> self, ret |-> None]

job_status(self) == [self |-> self, ret |-> None]

job_submit(self) == [self |-> self, ret |-> None]

----------------------------------------------------------------------------
(* HadamardSimulator                                                       *)

HadamardSimulator_init(p) ==
    [_configuration |->
        [backend_name |-> "hadamard_simulator",
         backend_version |-> "0.1.0",
         simulator |-> TRUE,
         local |-> TRUE,
         basis_gates |-> <<"h", "x">>,
         memory |-> TRUE,
         n_qubits |-> 30,
         conditional |-> FALSE,
         max_shots |-> 100000,
         open_pulse |-> FALSE],
     _provider |-> p]

\* BaseBackend.name(): the configured backend_name.
backend_name(b) == b._configuration.backend_name

\* What the body of "for operation in circuit.instructions" does with one
\* operation: "raise", "continue" (a measure) or "append" (a Hadamard).
check_operation_lenient(operation) ==
    IF operation.conditional THEN "raise"
    ELSE IF operation.name # "h" THEN "continue"
    ELSE "append"

check_operation(operation) ==
    IF operation.conditional THEN "raise"
    ELSE IF operation.name # "h"
         THEN (IF operation.name = "measure" THEN "continue" ELSE "raise")
    ELSE "append"

RECURSIVE instructions_loop(_, _)
instructions_loop(instructions, l) ==
    IF instructions = <<>> THEN [raised |-> FALSE, list_of_qubits |-> l]
    ELSE LET operation == Head(instructions)
             todo == check_operation(operation)
         IN  IF todo = "raise" THEN [raised |-> TRUE, list_of_qubits |-> <<>>]
             ELSE IF todo = "continue"
                  THEN instructions_loop(Tail(instructions), l)
             ELSE instructions_loop(Tail(instructions),
                                    Append(l, operation.qubits[1]))

\* One step of "for i in range(2**number_of_qubits)" filling formatted_counts.
format_entry_unfiltered(formatted_counts, counts, i) ==
    DictSet(formatted_counts, hex(i), counts[i + 1])

format_entry(formatted_counts, counts, i) ==
    IF counts[i + 1] # 0
    THEN DictSet(formatted_counts, hex(i), counts[i + 1])
    ELSE formatted_counts

\* The loop from iteration i on.  formatted_counts holds at most i items
\* when iteration i starts; the test of that in the guard makes every
\* iteration's dictionary a computed value before the next one starts.
RECURSIVE format_loop(_, _, _, _)
format_loop(formatted_counts, counts, i, n) ==
    IF i >= Pow2(n) \/ Len(formatted_counts) > i THEN formatted_counts
    ELSE format_loop(format_entry(formatted_counts, counts, i), counts, i + 1, n)

\* "for circuit_index, circuit in enumerate(qobj.experiments)".
RECURSIVE experiments_loop(_, _, _)
experiments_loop(experiments, q, experiment_results) ==
    IF experiments = <<>>
    THEN [raised |-> FALSE, experiment_results |-> experiment_results]
    ELSE LET circuit == Head(experiments)
             n == circuit.config.n_qubits
             s == q.config.shots
             il == instructions_loop(circuit.instructions, <<>>)
         IN  IF il.raised THEN [raised |-> TRUE, experiment_results |-> <<>>]
             ELSE LET counts == run_hadamard_simulator(n, il.list_of_qubits, s)
                      formatted_counts == format_loop(EmptyDict, counts, 0, n)
                  IN  experiments_loop(Tail(experiments), q,
                          Append(experiment_results,
                                 [name |-> circuit.header.name,
                                  success |-> TRUE,
                                  shots |-> s,
                                  data |-> [counts |-> formatted_counts],
                                  header |-> circuit.header]))

\* Result.from_dict of the dictionary built at the end of run.
Result_from_dict(experiment_results) ==
    [results |-> experiment_results,
     backend_name |-> "hadamard_simulator",
     backend_version |-> "0.1.0",
     qobj_id |-> "0",
     job_id |-> "0",
     success |-> TRUE]

\* A run whose experiment_results list lives on the backend object.
run_remembering(self, q) ==
    LET prior == IF "experiment_results" \in DOMAIN self
                 THEN self["experiment_results"] ELSE <<>>
        el == experiments_loop(q.experiments, q, prior)
    IN  IF el.raised
        THEN [self |-> self, raised |-> TRUE, result |-> None]
        ELSE [self |-> [f \in (DOMAIN self) \cup {"experiment_results"} |->
                           IF f = "experiment_results"
                           THEN el.experiment_results ELSE self[f]],
              raised |-> FALSE,
              result |-> Result_from_dict(el.experiment_results)]

\* HadamardSimulator.run: the backend object after the call, whether the
\* call raised, and the Result stored into the job.
run(self, q) ==
    LET el == experiments_loop(q.experiments, q, <<>>)
    IN  IF el.raised
        THEN [self |-> self, raised |-> TRUE, result |-> None]
        ELSE [self |-> self, raised |-> FALSE,
              result |-> Result_from_dict(el.experiment_results)]

\* hadamard_job = HadamardJob(None): a new object on every call.
new_job(heap) == Len(heap) + 1

\* hadamard_job._result = Result.from_dict(...): the attribute is created.
set_result(job, r) ==
    [f \in (DOMAIN job) \cup {"_result"} |-> IF f = "_result" THEN r ELSE job[f]]

----------------------------------------------------------------------------
(* HadamardProvider                                                        *)

\* The one backend object and the provider object; each holds a reference
\* to the other.
BackendRef == "HadamardSimulator#1"

ProviderRef == "HadamardProvider#1"

HadamardProvider_init == [_backends |-> <<BackendRef>>]

\* filter_backends(backends, filters=None) with no keyword criteria:
\* list(filter(None, backends)), and every backend object is true.
filter_backends(bs) == bs

backends_unfiltered(self, name, b) == [self |-> self, ret |-> filter_backends(self._backends)]

\* HadamardProvider.backends(name): b is the object BackendRef refers to.
backends(self, name, b) ==
    LET all == self._backends
        chosen == IF Truthy(name)
                  THEN SelectSeq(all, LAMBDA r : backend_name(b) = name)
                  ELSE all
    IN  [self |-> self, ret |-> filter_backends(chosen)]

----------------------------------------------------------------------------
(* Inputs.                                                                 *)

Operation(name, conditional, qubit) ==
    [name |-> name, conditional |-> conditional, qubits |-> <<qubit>>]

Experiment(label, n, instructions) ==
    [header |-> [name |-> label],
     config |-> [n_qubits |-> n],
     instructions |-> instructions]

\* circuit.header.name, an opaque label.
CircuitName(e) == <<"circuit", e>>

Qobj(s, experiments) == [config |-> [shots |-> s], experiments |-> experiments]

\* The circuit of cell 4: h on qubits 3, 1, 3, 2, then every qubit measured.
TutorialHadamards ==
    <<Operation("h", FALSE, 3), Operation("h", FALSE, 1),
      Operation("h", FALSE, 3), Operation("h", FALSE, 2)>>

TutorialMeasures ==
    <<Operation("measure", FALSE, 0), Operation("measure", FALSE, 1),
      Operation("measure", FALSE, 2), Operation("measure", FALSE, 3)>>

TutorialQobj(instructions) ==
    Qobj(TutorialShots, <<Experiment(CircuitName(0), TutorialQubits, instructions)>>)

TutorialCircuit == TutorialQobj(TutorialHadamards \o TutorialMeasures)

\* The tutorial's circuit as it is built gate by gate, measured at the end,
\* and the full circuit with an x gate, which the simulator does not support.
TutorialQobjs ==
    {TutorialQobj(SubSeq(TutorialHadamards, 1, p) \o TutorialMeasures) :
         p \in 0..Len(TutorialHadamards)}
    \cup {TutorialQobj(<<Operation("x", FALSE, 0)>> \o TutorialHadamards
                       \o TutorialMeasures)}

\* Experiment e of a qobj has RunQubits - (e - 1) qubits.
QubitsOf(e) == RunQubits - (e - 1)

\* Operations of an experiment on n qubits: h on the lowest and on the
\* highest qubit, a conditional h, a measure, a conditional measure, an x.
OperationKinds == 1..6

OperationOfKind(k, n) ==
    CASE k = 1 -> Operation("h", FALSE, 0)
      [] k = 2 -> Operation("h", FALSE, n - 1)
      [] k = 3 -> Operation("h", TRUE, 0)
      [] k = 4 -> Operation("measure", FALSE, 0)
      [] k = 5 -> Operation("measure", TRUE, 0)
      [] OTHER -> Operation("x", FALSE, 0)

\* Qobjs of 1..MaxExperiments experiments holding at most MaxInstr
\* operations in all: a sequence of kinds, cut into x experiments at c.
Cuts(x, t) == {c \in [0..x -> 0..t] :
                  /\ c[0] = 0
                  /\ c[x] = t
                  /\ \A e \in 1..x : c[e - 1] <= c[e]}

Assemble(s, kinds, x, c) ==
    Qobj(s, [e \in 1..x |->
                Experiment(CircuitName(e - 1), QubitsOf(e),
                           [j \in 1..(c[e] - c[e - 1]) |->
                               OperationOfKind(kinds[c[e - 1] + j], QubitsOf(e))])])

RunShots == {s \in 0..MaxShots : s % 8 = 0}

Qobjs ==
    UNION {UNION {{Assemble(s, kinds, x, c) : s \in RunShots, c \in Cuts(x, Len(kinds))}
                  : x \in 1..MaxExperiments}
           : kinds \in SeqsUpTo(OperationKinds, MaxInstr)}

----------------------------------------------------------------------------
(* Initial state and the simulator called directly.                        *)

QubitLists(n) == SeqsUpTo(0..(n - 1), MaxLen)

Call(op, arg) == [op |-> op, arg |-> arg]

InitObjects(Q) ==
    /\ qobj \in Q
    /\ backend = HadamardSimulator_init(ProviderRef)
    /\ jobs = <<>>
    /\ history = <<>>
    /\ provider = HadamardProvider_init
    /\ call = Call("init", None)
    /\ ret = None
    /\ raised = FALSE

InitSimulator ==
    /\ number_of_qubits = 0
    /\ shots = 0
    /\ list_of_qubits = <<>>
    /\ result = <<>>

SimInit ==
    /\ number_of_qubits \in 0..MaxQubits
    /\ shots \in 0..MaxShots
    /\ list_of_qubits \in QubitLists(number_of_qubits)
    /\ result = <<>>
    /\ InitObjects({TutorialCircuit})

\* run_hadamard_simulator(number_of_qubits, l, shots)
SimCall(l) ==
    /\ list_of_qubits' = l
    /\ result' = run_hadamard_simulator(number_of_qubits, l, shots)
    /\ UNCHANGED <<number_of_qubits, shots>>
    /\ UNCHANGED objvars

\* The first call, with the arguments drawn initially.
SimFirstCall == result = <<>> /\ SimCall(list_of_qubits)

\* A further call with a list in which every qubit occurs with the same
\* parity as in the list of the call before.
SimCallSameParity ==
    /\ result # <<>>
    /\ \E odd \in {{q \in 0..(number_of_qubits - 1) :
                      Cardinality({j \in 1..Len(list_of_qubits) :
                                      list_of_qubits[j] = q}) % 2 = 1}} :
         \E l \in QubitLists(number_of_qubits) :
           /\ \A q \in 0..(number_of_qubits - 1) :
                  (Cardinality({j \in 1..Len(l) : l[j] = q}) % 2 = 1) <=> (q \in odd)
           /\ SimCall(l)

SimNext == SimFirstCall \/ SimCallSameParity

SimSpec == SimInit /\ [][SimNext]_vars

----------------------------------------------------------------------------
(* The backend, its jobs and the provider.                                 *)

\* backend.run(q).  A job that run allocated before raising is referenced
\* by nothing once the exception leaves run.
Run(q) ==
    /\ Len(jobs) < MaxJobs
    /\ \E out \in {run(backend, q)} :
         /\ backend' = out.self
         /\ raised' = out.raised
         /\ IF out.raised
            THEN /\ ret' = None
                 /\ UNCHANGED <<jobs, history>>
            ELSE \E j \in {new_job(jobs)} :
                   \E job \in {set_result(HadamardJob_init(None), out.result)} :
                     /\ ret' = j
                     /\ jobs' = [k \in 1..(IF j > Len(jobs) THEN j ELSE Len(jobs)) |->
                                    IF k = j THEN job ELSE jobs[k]]
                     /\ history' = Append(history,
                                          [qobj |-> q, job |-> j, result |-> out.result])
    /\ qobj' = q
    /\ call' = Call("run", None)
    /\ UNCHANGED provider
    /\ UNCHANGED simvars

JobCall(op, j, out) ==
    /\ jobs' = [jobs EXCEPT ![j] = out.self]
    /\ ret' = out.ret
    /\ raised' = FALSE
    /\ call' = Call(op, j)
    /\ UNCHANGED <<qobj, backend, history, provider>>
    /\ UNCHANGED simvars

JobResult(j) == JobCall("result", j, job_result(jobs[j]))

JobCancel(j) == JobCall("cancel", j, job_cancel(jobs[j]))

JobStatus(j) == JobCall("status", j, job_status(jobs[j]))

JobSubmit(j) == JobCall("submit", j, job_submit(jobs[j]))

Names == {None, "", "hadamard_simulator", "qasm_simulator"}

Backends(name) ==
    /\ LET out == backends(provider, name, backend)
       IN  /\ provider' = out.self
           /\ ret' = out.ret
    /\ raised' = FALSE
    /\ call' = Call("backends", name)
    /\ UNCHANGED <<qobj, backend, jobs, history>>
    /\ UNCHANGED simvars

Init == InitSimulator /\ InitObjects({TutorialCircuit})

Next ==
    \/ \E q \in TutorialQobjs : Run(q)
    \/ \E j \in 1..Len(jobs) : JobResult(j)
    \/ \E j \in 1..Len(jobs) : JobCancel(j)
    \/ \E j \in 1..Len(jobs) : JobStatus(j)
    \/ \E j \in 1..Len(jobs) : JobSubmit(j)
    \/ \E name \in Names : Backends(name)

Spec == Init /\ [][Next]_vars

\* One run of each qobj of Qobjs on a new backend.
RunInit == InitSimulator /\ InitObjects(Qobjs)

RunNext == jobs = <<>> /\ Run(qobj)

RunSpec == RunInit /\ [][RunNext]_vars

----------------------------------------------------------------------------
(* Vocabulary of the claims about run_hadamard_simulator.                  *)

Occurrences(l, q) == Cardinality({j \in 1..Len(l) : l[j] = q})

OddQubits(l, n) == {q \in 0..(n - 1) : Occurrences(l, q) % 2 = 1}

\* Bit q of the index i: qubit q has weight 2^q.
Bit(i, q) == (i \div Pow2(q)) % 2

OnlyOn(i, Q, n) == \A q \in 0..(n - 1) : Bit(i, q) = 1 => q \in Q

RECURSIVE SumSeq(_)
SumSeq(l) == IF l = <<>> THEN 0 ELSE Head(l) + SumSeq(Tail(l))

SameParity(l1, l2, n) == OddQubits(l1, n) = OddQubits(l2, n)

Returned == result # <<>>

\* C1: with k the number of qubits occurring an odd number of times, every
\* index whose set bits all lie on those qubits holds the integer part of
\* shots / 2^k (all the shots at index 0 when k = 0).
C1_EntriesAreShotsOverTwoToK ==
    Returned =>
        LET Q == OddQubits(list_of_qubits, number_of_qubits)
        IN  \A i \in 0..(Pow2(number_of_qubits) - 1) :
                OnlyOn(i, Q, number_of_qubits)
                    => result[i + 1] = shots \div Pow2(Cardinality(Q))

\* C2: the returned list has exactly 2^n entries, and entry i is 0 whenever
\* bit q of i is 1 for a qubit q occurring an even number of times.
C2_EvenQubitSetGivesZero ==
    Returned =>
        /\ Len(result) = Pow2(number_of_qubits)
        /\ \A i \in 0..(Pow2(number_of_qubits) - 1) :
               ~OnlyOn(i, OddQubits(list_of_qubits, number_of_qubits),
                       number_of_qubits)
                   => result[i + 1] = 0

C2_Witness ==
    /\ Returned
    /\ \E q \in 0..(number_of_qubits - 1) :
           /\ Occurrences(list_of_qubits, q) = 2
           /\ result[Pow2(q) + 1] = 0
    /\ \E i \in 1..Len(result) : result[i] > 0

\* C7: a call with the same number_of_qubits and shots and a list in which
\* every qubit occurs with the same parity returns the same list.
C7_OnlyParityMatters ==
    [][(Returned /\ SameParity(list_of_qubits, list_of_qubits', number_of_qubits))
           => result' = result]_vars

C7_Witness ==
    /\ Returned
    /\ Len(list_of_qubits) = 3
    /\ list_of_qubits[1] = list_of_qubits[3]
    /\ list_of_qubits[1] # list_of_qubits[2]
    /\ \E i \in 1..Len(result) : result[i] > 0

\* C9: the returned entries are all non-negative and their sum never
\* exceeds shots.
C9_SumWithinShots ==
    Returned =>
        /\ \A i \in 1..Len(result) : result[i] >= 0
        /\ SumSeq(result) <= shots

----------------------------------------------------------------------------
(* Vocabulary of the claims about HadamardSimulator.run.                   *)

Unsupported(operation) ==
    operation.conditional \/ operation.name \notin {"h", "measure"}

HasUnsupported(q) ==
    \E e \in 1..Len(q.experiments) :
        \E j \in 1..Len(q.experiments[e].instructions) :
            Unsupported(q.experiments[e].instructions[j])

\* The qubits of the Hadamard gates of a circuit, in order.
RECURSIVE HadamardQubits(_)
HadamardQubits(instructions) ==
    IF instructions = <<>> THEN <<>>
    ELSE (IF Head(instructions).name = "h"
          THEN <<Head(instructions).qubits[1]>> ELSE <<>>)
         \o HadamardQubits(Tail(instructions))

HexValue(ch) == CHOOSE d \in 0..15 : HexDigit[d + 1] = ch

\* int(key, 16) of a key '0x...'.
RECURSIVE ParseHexDigits(_)
ParseHexDigits(ds) ==
    IF ds = <<>> THEN 0
    ELSE 16 * ParseHexDigits(SubSeq(ds, 1, Len(ds) - 1)) + HexValue(ds[Len(ds)])

ParseHex(key) == ParseHexDigits(SubSeq(key, 3, Len(key)))

RunReturned == call.op = "run" /\ ~raised

\* C3: a run of a qobj in which any instruction of any experiment is
\* conditional or is neither 'h' nor 'measure' raises, returns no job and
\* leaves no job or result behind.
C3_UnsupportedRaises ==
    (call.op = "run" /\ HasUnsupported(qobj)) =>
        /\ raised
        /\ ret = None
        /\ jobs = <<>>
        /\ history = <<>>

C3_Witness ==
    /\ call.op = "run"
    /\ raised
    /\ Len(qobj.experiments) = 2
    /\ Len(qobj.experiments[1].instructions) = 1
    /\ qobj.experiments[1].instructions[1] = Operation("h", FALSE, 0)
    /\ Len(qobj.experiments[2].instructions) = 1
    /\ qobj.experiments[2].instructions[1].name = "x"

\* C8: for every experiment of a run that returned, the counts dictionary
\* has exactly one entry per index with a non-zero simulator count, keyed
\* by hex of the index and carrying that count, none for a zero count, and
\* the experiment reports the shots of qobj.config.
C8_CountsAreTheNonZeroEntries ==
    RunReturned =>
        LET r == jobs[ret]._result
        IN  /\ Len(r.results) = Len(qobj.experiments)
            /\ \A e \in 1..Len(qobj.experiments) :
                 LET circuit == qobj.experiments[e]
                     n == circuit.config.n_qubits
                     sim == run_hadamard_simulator(
                                n, HadamardQubits(circuit.instructions),
                                qobj.config.shots)
                     NonZero == {i \in 0..(Pow2(n) - 1) : sim[i + 1] # 0}
                     counts == r.results[e].data.counts
                 IN  /\ \A i \in NonZero : hex(i) \in DictKeys(counts)
                     /\ \A key \in DictKeys(counts) :
                            /\ ParseHex(key) \in NonZero
                            /\ DictGet(counts, key) = sim[ParseHex(key) + 1]
                     /\ Len(counts) = Cardinality(NonZero)
                     /\ r.results[e].shots = qobj.config.shots

C8_Witness ==
    /\ RunReturned
    /\ qobj.config.shots = 8
    /\ Len(qobj.experiments) = 2
    /\ LET counts == jobs[ret]._result.results[1].data.counts
       IN  /\ Len(counts) = 4
           /\ <<"0", "x", "1", "1">> \in DictKeys(counts)
           /\ DictGet(counts, <<"0", "x", "1", "1">>) = 2

----------------------------------------------------------------------------
(* Claims about the jobs, repeated runs and the provider.                  *)

JobOps == {"cancel", "status", "submit", "result"}

\* The result run stored into job j, as logged when run returned.
Stored(j) ==
    history[CHOOSE h \in 1..Len(history) :
                /\ history[h].job = j
                /\ \A g \in (h + 1)..Len(history) : history[g].job # j].result

\* C4: a cancel(), status(), submit() or result() call leaves the stored
\* result of every job unchanged, and result() returns the result that run
\* stored into the job.
C4_JobCallsKeepResult ==
    [][(call'.op \in JobOps) =>
           /\ \A j \in 1..Len(jobs) : jobs'[j]._result = jobs[j]._result
           /\ (call'.op = "result" => ret' = Stored(call'.arg))]_vars

C4_Witness ==
    /\ call.op = "result"
    /\ Len(jobs) = 2
    /\ call.arg = 1
    /\ ret = history[1].result
    /\ ret # history[2].result

\* C5 as stated: the provider holds one static backend named
\* 'hadamard_simulator'; backends() returns the whole list and, for every
\* string X, backends(name=X) returns only backends named X.
C5_EveryNameFilters ==
    /\ provider._backends = <<BackendRef>>
    /\ backend_name(backend) = "hadamard_simulator"
    /\ (call.op = "backends" =>
           IF call.arg = None THEN ret = provider._backends
           ELSE ret = (IF call.arg = "hadamard_simulator"
                       THEN <<BackendRef>> ELSE <<>>))

\* C5 amended: the same for every non-empty string X; backends(name='')
\* returns the whole list, as backends() does.
C5_NonEmptyNameFilters ==
    /\ provider._backends = <<BackendRef>>
    /\ backend_name(backend) = "hadamard_simulator"
    /\ (call.op = "backends" =>
           IF call.arg = None \/ call.arg = "" THEN ret = provider._backends
           ELSE ret = (IF call.arg = "hadamard_simulator"
                       THEN <<BackendRef>> ELSE <<>>))

C5_Witness ==
    /\ call.op = "backends"
    /\ call.arg = "hadamard_simulator"
    /\ ret = <<BackendRef>>
    /\ Len(jobs) > 0

\* C6: runs of the same qobj returned equal results whatever ran in
\* between, and every job still holds the result its run stored.
C6_RunKeepsNoState ==
    \A h1 \in 1..Len(history) :
        /\ jobs[history[h1].job]._result = history[h1].result
        /\ \A h2 \in 1..Len(history) :
               history[h1].qobj = history[h2].qobj
                   => history[h1].result = history[h2].result

C6_Witness ==
    /\ Len(history) = 3
    /\ history[1].qobj = history[3].qobj
    /\ history[1].qobj # history[2].qobj
    /\ history[1].result # history[2].result
    /\ history[1].result.results[1].data.counts # EmptyDict

====
